---- MODULE Spec2Model ----
(***************************************************************************)
(* FHST-tools: gen_black_ribbons.py, gen_best_times.py and gen_all.py.     *)
(*                                                                         *)
(* A CSV cell (a Python str) is a sequence: <<>> is the empty string and   *)
(* <<x>> a non-empty string whose content is x.  A numeric cell <<n>> holds *)
(* the time n in hundredths of a second.  A CSV row is the flat sequence   *)
(* of its cells; Python's 0-based row[k] is At(row, k).  Python's None is  *)
(* the empty sequence Nil wherever a value is optional.                    *)
(***************************************************************************)
EXTENDS Integers, Sequences, FiniteSets, TLC

VARIABLES
    \* gen_unformatted_label applied to one row
    l_blocks, l_line, l_meet, l_label, l_pc,
    \* one run of gen_black_ribbons.main
    r_header, r_lines, r_args, r_pc, r_meets, r_meet, r_labels, r_exit,
    r_error, r_written,
    \* gen_best_times.gen_formatted_report: the cursor, the position in the
    \* loops, and (f_block, f_break, f_cont) what the layout has last done
    f_pc, f_c, f_x, f_y, f_page, f_ag, f_nev, f_ev, f_first, f_n, f_left,
    f_block, f_break, f_cont,
    \* one run of gen_best_times.main: the file, the row loop of read_data,
    \* the data it builds and the outline made of it
    b_header, b_lines, b_i, b_data, b_report, b_pc, b_exit, b_written,
    \* a header given to the two report-card validators, and their verdicts
    s_header, s_lines, s_read_data, s_validate,
    \* gen_all.py: the csv files of the directory in glob order, the number of
    \* them looked at, the selection, the loop over black_ribbon_meets, the
    \* child invocations made so far
    o_dir, o_k, o_best, o_best_mtime, o_card, o_meets, o_pc, o_j, o_calls,
    o_exit,
    \* gen_formatted_labels: the number of labels, the one whose stroke has no
    \* name (0: none), the labels drawn, the counters r and c, the page, the
    \* cell of every label drawn
    g_n, g_bad, g_k, g_r, g_c, g_page, g_cells, g_pc

labelVars  == <<l_blocks, l_line, l_meet, l_label, l_pc>>
ribbonVars == <<r_header, r_lines, r_args, r_pc, r_meets, r_meet, r_labels,
                r_exit, r_error, r_written>>
layoutVars == <<f_pc, f_c, f_x, f_y, f_page, f_ag, f_nev, f_ev, f_first, f_n,
                f_left, f_block, f_break, f_cont>>
bestVars == <<b_header, b_lines, b_i, b_data, b_report, b_pc, b_exit,
              b_written>>
schemaVars == <<s_header, s_lines, s_read_data, s_validate>>
orchVars == <<o_dir, o_k, o_best, o_best_mtime, o_card, o_meets, o_pc, o_j,
              o_calls, o_exit>>
gridVars == <<g_n, g_bad, g_k, g_r, g_c, g_page, g_cells, g_pc>>
vars == <<labelVars, ribbonVars, layoutVars, bestVars, schemaVars, orchVars,
          gridVars>>

----------------------------------------------------------------------------
(* Bounds of the model *)

\* most meet blocks in a report-card file
MaxMeets == 2
\* most data rows in a report-card file
MaxRows == 1
\* largest time (hundredths) of a meet block in a report-card file
MaxTime == 2
\* most labels given to gen_formatted_labels
MaxLabels == 65
\* most csv files in the directory of the orchestrator
MaxFiles == 2
\* most meet blocks of the headers given to the validators
MaxHeaderMeets == 3
\* most data rows in a best-times file
MaxBestRows == 2
\* the times of a best-times file are the first MaxBestTimes multiples of
\* half a second
MaxBestTimes == 2
\* most age groups of the report given to gen_formatted_report
MaxAgeGroups == 2
\* most events of one age group of that report
MaxEvents == 3
\* most swimmers of one event of that report
MaxSwimmers == 66
\* most meet blocks of the row given to gen_unformatted_label
LabelBlocks == 4
\* largest time (hundredths) in the row given to gen_unformatted_label
LabelTime == 3

----------------------------------------------------------------------------
(* Python helpers *)

Nil == <<>>
Some(x) == <<x>>
Truthy(s) == s /= <<>>
At(row, k) == row[k + 1]
\* float(s) of a non-empty numeric cell
Float(s) == s[1]
\* row[a:b] (Python slice, clipped to the row)
Slice(row, a, b) ==
    LET hi == IF b < Len(row) THEN b ELSE Len(row)
    IN  IF a >= hi THEN <<>> ELSE [k \in 1..(hi - a) |-> row[a + k]]

RECURSIVE Flatten(_)
Flatten(ss) == IF ss = <<>> THEN <<>> ELSE Head(ss) \o Flatten(Tail(ss))

RECURSIVE MinOf(_)
\* min(t) of a non-empty tuple
MinOf(t) ==
    IF Len(t) = 1 THEN t[1]
    ELSE LET m == MinOf(Tail(t)) IN IF m < t[1] THEN m ELSE t[1]

RECURSIVE MaxOf(_)
\* max(t) of a non-empty tuple
MaxOf(t) ==
    IF Len(t) = 1 THEN t[1]
    ELSE LET m == MaxOf(Tail(t)) IN IF m > t[1] THEN m ELSE t[1]

----------------------------------------------------------------------------
(* gen_black_ribbons.py: CSV input columns *)

\* a column name: meet = 0 for a plain name, i for the prefix "Meet{i}-"
Col(i, n) == [meet |-> i, name |-> n]

LeadColumns ==
    << Col(0, "AgeGroup"), Col(0, "AthleteId"), Col(0, "LastName"),
       Col(0, "FirstName"), Col(0, "LastName_FirstName"), Col(0, "Age"),
       Col(0, "EventDistance"), Col(0, "EventStroke") >>
TailColumns ==
    << Col(0, "TotalResults"), Col(0, "TotalImproved"), Col(0, "TotalPoints"),
       Col(0, "AmountImprovedSec"), Col(0, "PercentImproved") >>
MeetColumns ==
    << Col(0, "Name"), Col(0, "Result"), Col(0, "ResultSec"),
       Col(0, "Improved"), Col(0, "Points"), Col(0, "Date") >>

NumLeadColumns == Len(LeadColumns)
NumTailColumns == Len(TailColumns)
NumColumnsPerMeet == Len(MeetColumns)

\* f"Meet{i+1}-{mc}" for i in range(n_meet) for mc in MeetColumns
MeetHeader(n_meet) ==
    [k \in 1..(n_meet * NumColumnsPerMeet) |->
        Col(((k - 1) \div NumColumnsPerMeet) + 1,
            MeetColumns[((k - 1) % NumColumnsPerMeet) + 1].name)]

ExpectedColumns(n_meet) == LeadColumns \o MeetHeader(n_meet) \o TailColumns

----------------------------------------------------------------------------
(* gen_black_ribbons.py: gen_unformatted_label, gen_unformatted_labels *)

\* The column read for the time of meet block i.
TimeColumn(i) == NumLeadColumns + 2 + i * NumColumnsPerMeet

\* times = tuple(line[...] for i in range(meet+1))
LabelTimes(line, meet) == [k \in 1..(meet + 1) |-> At(line, TimeColumn(k - 1))]

\* tuple(float(t) for t in times[:-1] if t)
PriorTimes(times) ==
    LET RECURSIVE keep(_)
        keep(k) == IF k >= Len(times) THEN <<>>
                   ELSE (IF Truthy(times[k]) THEN <<Float(times[k])>> ELSE <<>>)
                        \o keep(k + 1)
    IN  keep(1)

\* Mutant of NotImproved: an equal time counts as an improvement.
NotImproved_strict(meet_time, prior_best) == meet_time > prior_best

\* The drop test that suppresses a label: meet_time >= prior_best.
NotImproved(meet_time, prior_best) == meet_time >= prior_best

\* gen_unformatted_label(line, meet): Nil (None) or Some(label)
gen_unformatted_label(line, meet) ==
    LET times     == LabelTimes(line, meet)
        meet_time == times[Len(times)]
        prior     == PriorTimes(times)
    IN  IF ~Truthy(meet_time) THEN Nil
        ELSE IF prior = <<>> THEN Nil
        ELSE IF NotImproved(Float(meet_time), MinOf(prior)) THEN Nil
        ELSE Some([ meet      |-> meet,
                    swimmer   |-> <<At(line, 3), At(line, 2), At(line, 5)>>,
                    age_group |-> At(line, 0),
                    distance  |-> At(line, 6),
                    stroke    |-> At(line, 7),
                    new_time  |-> Float(meet_time),
                    time_drop |-> MinOf(prior) - Float(meet_time) ])

RECURSIVE gen_unformatted_labels(_, _)
gen_unformatted_labels(data, meet) ==
    IF data = <<>> THEN <<>>
    ELSE gen_unformatted_label(Head(data), meet)
         \o gen_unformatted_labels(Tail(data), meet)

----------------------------------------------------------------------------
(* Report-card rows *)

\* a meet block of a row: name, result, result in seconds, improved, points, date
Block(name, result, sec) == << name, result, sec, <<>>, <<>>,
                                IF Truthy(name) THEN <<"date">> ELSE <<>> >>

LeadCells == << <<"Girls 9-10">>, <<"id">>, <<"Last">>, <<"First">>,
                <<"Last, First">>, <<"9">>, <<"50">>, <<"free">> >>
TailCells == << <<>>, <<>>, <<>>, <<>>, <<>> >>

Row(blocks) == LeadCells \o Flatten(blocks) \o TailCells

\* rows whose blocks hold any time in 1..maxTime or nothing; the other cells
\* of a block are filled when the time is
TimedBlocks(maxTime) ==
    {Block(<<>>, <<>>, <<>>)} \cup
    {Block(<<"meet">>, <<"r">>, <<t>>) : t \in 1..maxTime}

\* the blocks of the rows of a report-card file: a meet not swum, a meet swum
\* in time t, a result with no meet name, a meet name with no result
FileBlocks ==
    TimedBlocks(MaxTime) \cup
    { Block(<<>>, <<"r">>, <<1>>), Block(<<"meet">>, <<>>, <<>>) }

\* the header of a report-card file of n meet blocks, as Swimtopia exports it
HeaderOf(n) ==
    [k \in 1..(13 + 6 * n) |->
        IF k <= 8 THEN LeadColumns[k]
        ELSE IF k > 8 + 6 * n THEN TailColumns[k - 8 - 6 * n]
        ELSE [meet |-> ((k - 9) \div 6) + 1,
              name |-> MeetColumns[((k - 9) % 6) + 1].name]]

\* The report-card files of the model: well-formed files of 1..MaxMeets meet
\* blocks and 0..MaxRows rows, and one file whose header has no meet block.
IsReportCardFile(header, lines) ==
    \/ /\ header = HeaderOf(0)
       /\ lines = <<>>
    \/ \E n \in 1..MaxMeets, k \in 0..MaxRows :
         /\ header = HeaderOf(n)
         /\ \E bss \in [1..k -> [1..n -> FileBlocks]] :
              lines = [i \in 1..k |-> Row(bss[i])]

----------------------------------------------------------------------------
(* gen_black_ribbons.py: read_data *)

\* The least number of meet columns the header must have.
MinMeetColumns == NumColumnsPerMeet

\* The try block of read_data: Some(n_meet) when the header passes, Nil when
\* an assertion fails.  zip() stops at the shorter of header and
\* expected_columns.
read_data_header(header) ==
    LET n_col      == Len(header)
        n_overhead == NumLeadColumns + NumTailColumns
        n_meet_col == n_col - n_overhead
    IN  IF ~(n_meet_col >= MinMeetColumns) THEN Nil
        ELSE LET n_meet   == n_meet_col \div NumColumnsPerMeet
                 n_extra  == n_meet_col % NumColumnsPerMeet
                 expected == ExpectedColumns(n_meet)
                 n_zip    == IF Len(header) < Len(expected)
                             THEN Len(header) ELSE Len(expected)
             IN  IF n_extra /= 0 THEN Nil
                 ELSE IF \A i \in 1..n_zip : header[i] = expected[i]
                      THEN Some(n_meet) ELSE Nil

\* Mutant of HasMeetData: the result of the block is not looked at.
HasMeetData_name_only(meet_name, result) == Truthy(meet_name)

\* The test that records a directory entry: meet_name and result.
HasMeetData(meet_name, result) == Truthy(meet_name) /\ Truthy(result)

\* One pass of the inner loop "for i in range(n_meet)" over one line.
read_data_line(meets, line, n_meet) ==
    [k \in 1..n_meet |->
        LET start == NumLeadColumns + (k - 1) * NumColumnsPerMeet
            cells == Slice(line, start, start + NumColumnsPerMeet)
        IN  IF HasMeetData(cells[1], cells[2]) /\ meets[k] = Nil
            THEN Some(<<cells[1], cells[6]>>)
            ELSE meets[k]]

RECURSIVE read_data_meets(_, _, _)
\* meets = [None for i in range(n_meet)]; for line in lines: ...
read_data_meets(meets, lines, n_meet) ==
    IF lines = <<>> THEN meets
    ELSE read_data_meets(read_data_line(meets, Head(lines), n_meet),
                         Tail(lines), n_meet)

----------------------------------------------------------------------------
(* gen_black_ribbons.py: meet information *)

\* validate_selected_meet: TRUE when it returns, FALSE when it exits
validate_selected_meet(meets, meet_number) ==
    /\ meet_number < Len(meets)
    /\ At(meets, meet_number) /= Nil

\* weeks = tuple(i for i,v in enumerate(meets) if v)
Weeks(meets) ==
    LET RECURSIVE from(_)
        from(i) == IF i >= Len(meets) THEN <<>>
                   ELSE (IF Truthy(At(meets, i)) THEN <<i>> ELSE <<>>)
                        \o from(i + 1)
    IN  from(0)

\* The least number of meets with data select_latest_meet asks for.
MinWeeks == 2

\* Mutant of select_latest_meet: one meet with data is taken to be enough.
select_latest_meet_one(meets) ==
    LET weeks == Weeks(meets)
    IN  IF Len(weeks) < 1 THEN Nil ELSE Some(MaxOf(weeks))

\* select_latest_meet: Some(max(weeks)) when it returns, Nil when it exits
select_latest_meet(meets) ==
    LET weeks == Weeks(meets)
    IN  IF Len(weeks) < MinWeeks THEN Nil ELSE Some(MaxOf(weeks))

----------------------------------------------------------------------------
(* gen_unformatted_label applied to one row (l_blocks: the meet blocks the   *)
(* row l_line was exported from)                                             *)

LabelIdle ==
    /\ l_blocks = <<>> /\ l_line = <<>> /\ l_meet = 0
    /\ l_label = Nil /\ l_pc = "idle"

LabelInit ==
    /\ \E n \in 1..LabelBlocks :
         /\ l_blocks \in [1..n -> TimedBlocks(LabelTime)]
         /\ l_meet \in 0..(n - 1)
    /\ l_line = Row(l_blocks)
    /\ l_label = Nil
    /\ l_pc = "call"

GenUnformattedLabel ==
    /\ l_pc = "call"
    /\ l_label' = gen_unformatted_label(l_line, l_meet)
    /\ l_pc' = "returned"
    /\ UNCHANGED <<l_blocks, l_line, l_meet>>
    /\ UNCHANGED <<ribbonVars, layoutVars, bestVars, schemaVars, orchVars, gridVars>>

----------------------------------------------------------------------------
(* gen_black_ribbons.py: main *)

RibbonIdle ==
    /\ r_header = <<>> /\ r_lines = <<>> /\ r_args = <<>> /\ r_pc = "idle"
    /\ r_meets = <<>> /\ r_meet = Nil /\ r_labels = <<>> /\ r_exit = Nil
    /\ r_error = "none" /\ r_written = FALSE

\* --meet is absent (Nil) or a positive integer (parse_args._positive); a
\* --list run is taken without --meet, which main does not read then
RibbonArgs ==
    { [meet |-> Nil, show_list |-> TRUE] } \cup
    [ meet : {Nil} \cup { Some(k) : k \in 1..(MaxMeets + 1) },
      show_list : {FALSE} ]

RibbonInit ==
    /\ IsReportCardFile(r_header, r_lines)
    /\ r_args \in RibbonArgs
    /\ r_pc = "read_data"
    /\ r_meets = <<>> /\ r_meet = Nil /\ r_labels = <<>> /\ r_exit = Nil
    /\ r_error = "none" /\ r_written = FALSE

\* sys.exit(code) after the message err
RibbonExit(code, err) ==
    /\ r_pc' = "exit"
    /\ r_exit' = Some(code)
    /\ r_error' = err

\* meets, data = read_data(src)
ReadData ==
    /\ r_pc = "read_data"
    /\ LET h == read_data_header(r_header)
       IN  IF h = Nil
           THEN /\ RibbonExit(1, "schema")
                /\ UNCHANGED r_meets
           ELSE /\ r_meets' = read_data_meets([i \in 1..h[1] |-> Nil],
                                              r_lines, h[1])
                /\ r_pc' = "parsed"
                /\ UNCHANGED <<r_exit, r_error>>
    /\ UNCHANGED <<r_header, r_lines, r_args, r_meet, r_labels, r_written>>
    /\ UNCHANGED <<labelVars, layoutVars, bestVars, schemaVars, orchVars, gridVars>>

\* if show_list: show_meets(meets); sys.exit(0)
ShowMeets ==
    /\ r_pc = "parsed"
    /\ r_args.show_list
    /\ RibbonExit(0, "none")
    /\ UNCHANGED <<r_header, r_lines, r_args, r_meets, r_meet, r_labels,
                   r_written>>
    /\ UNCHANGED <<labelVars, layoutVars, bestVars, schemaVars, orchVars, gridVars>>

\* if meet: validate_selected_meet(meets, meet)
ValidateSelectedMeet ==
    /\ r_pc = "parsed"
    /\ ~r_args.show_list
    /\ Truthy(r_args.meet)
    /\ IF validate_selected_meet(r_meets, r_args.meet[1])
       THEN /\ r_meet' = r_args.meet
            /\ r_pc' = "selected"
            /\ UNCHANGED <<r_exit, r_error>>
       ELSE /\ RibbonExit(1, "no such meet")
            /\ UNCHANGED r_meet
    /\ UNCHANGED <<r_header, r_lines, r_args, r_meets, r_labels, r_written>>
    /\ UNCHANGED <<labelVars, layoutVars, bestVars, schemaVars, orchVars, gridVars>>

\* else: meet = select_latest_meet(meets, src)
SelectLatestMeet ==
    /\ r_pc = "parsed"
    /\ ~r_args.show_list
    /\ ~Truthy(r_args.meet)
    /\ LET m == select_latest_meet(r_meets)
       IN  IF m = Nil
           THEN /\ RibbonExit(1, "no meet data")
                /\ UNCHANGED r_meet
           ELSE /\ r_meet' = m
                /\ r_pc' = "selected"
                /\ UNCHANGED <<r_exit, r_error>>
    /\ UNCHANGED <<r_header, r_lines, r_args, r_meets, r_labels, r_written>>
    /\ UNCHANGED <<labelVars, layoutVars, bestVars, schemaVars, orchVars, gridVars>>

\* labels = gen_unformatted_labels(data, meet)
GenUnformattedLabels ==
    /\ r_pc = "selected"
    /\ r_labels' = gen_unformatted_labels(r_lines, r_meet[1])
    /\ r_pc' = "labelled"
    /\ UNCHANGED <<r_header, r_lines, r_args, r_meets, r_meet, r_exit,
                   r_error, r_written>>
    /\ UNCHANGED <<labelVars, layoutVars, bestVars, schemaVars, orchVars, gridVars>>

\* gen_formatted_labels(labels, meets, dst): pdf.output(dst) writes the
\* document; main then returns and the process ends with code 0
GenFormattedLabels ==
    /\ r_pc = "labelled"
    /\ r_written' = TRUE
    /\ RibbonExit(0, "none")
    /\ UNCHANGED <<r_header, r_lines, r_args, r_meets, r_meet, r_labels>>
    /\ UNCHANGED <<labelVars, layoutVars, bestVars, schemaVars, orchVars, gridVars>>

----------------------------------------------------------------------------
(* gen_best_times.py: output page layout.  Lengths are counted in 1/Unit mm, *)
(* so that _SwimmerHeight (3.5 mm) is a whole number.                        *)

Unit == 2
LeftEdge   == 10 * Unit
RightEdge  == 205 * Unit
TopEdge    == 30 * Unit
BottomEdge == 260 * Unit
ColumnCount == 3
AgeGroupHeight == 8 * Unit
EventHeight    == 5 * Unit
SwimmerHeight  == (35 * Unit) \div 10
AgeGroupPad == 3 * Unit
EventPad    == 2 * Unit

\* w_col = (_RightEdge - _LeftEdge) // _ColumnCount, a whole number of mm
ColumnWidth == (((RightEdge - LeftEdge) \div Unit) \div ColumnCount) * Unit

\* The last column index of a page: the break test is "c > 2".
LastColumn == 2

\* the swimmer counts of the events of the model's reports: none, one, half
\* a column, a column less the age-group header, more than a column
SwimmerCounts ==
    { 0, 1, MaxSwimmers \div 2, MaxSwimmers - 4, MaxSwimmers }

\* required_height of an age group (its header and first event) and of an event
AgeGroupRequired(nswimmers) ==
    AgeGroupHeight + EventHeight + EventPad + nswimmers * SwimmerHeight
EventRequired(nswimmers) ==
    EventHeight + EventPad + nswimmers * SwimmerHeight

----------------------------------------------------------------------------
(* gen_best_times.py: gen_formatted_report.  The report is read as the loops *)
(* go: f_ag age groups are done, the current one has f_nev events of which   *)
(* f_ev are done, its first event has f_first swimmers, the current event    *)
(* has f_n swimmers of which f_left are still to draw.  f_block is where the *)
(* current event's header was drawn, f_break the break taken before it       *)
(* ("none", "column", "page"), f_cont the age group whose "(cont)" header    *)
(* add_page drew on the current page (Nil: none).                            *)

LayoutIdle ==
    /\ f_pc = "idle" /\ f_c = 0 /\ f_x = 0 /\ f_y = 0 /\ f_page = 0
    /\ f_ag = 0 /\ f_nev = 0 /\ f_ev = 0 /\ f_first = 0 /\ f_n = 0
    /\ f_left = 0 /\ f_block = <<>> /\ f_break = "none" /\ f_cont = Nil

\* add_page(pdf, w_col); c = 0; x = _LeftEdge; y = _TopEdge
LayoutInit ==
    /\ f_pc = "age_group" /\ f_c = 0 /\ f_x = LeftEdge /\ f_y = TopEdge
    /\ f_page = 1
    /\ f_ag = 0 /\ f_nev = 0 /\ f_ev = 0 /\ f_first = 0 /\ f_n = 0
    /\ f_left = 0 /\ f_block = <<>> /\ f_break = "none" /\ f_cont = Nil

\* Mutant of Jump: after add_page the cursor stays at the top margin.
Jump_top(required_height, age_group, head) ==
    IF f_y + required_height > BottomEdge
    THEN IF f_c + 1 > LastColumn
         THEN [c |-> 0, x |-> LeftEdge, y |-> TopEdge,
               page |-> f_page + 1, cont |-> age_group, break |-> "page"]
         ELSE [c |-> f_c + 1, x |-> f_x + ColumnWidth, y |-> TopEdge,
               page |-> f_page, cont |-> f_cont, break |-> "column"]
    ELSE [c |-> f_c, x |-> f_x, y |-> f_y, page |-> f_page, cont |-> f_cont,
          break |-> "none"]

\* "jump to next column/page if necessary": the cursor after the test, for a
\* block of the given required height; age_group is the add_page argument
\* (Nil in the age-group test) and head the height added below a "(cont)"
\* header
Jump(required_height, age_group, head) ==
    IF f_y + required_height > BottomEdge
    THEN IF f_c + 1 > LastColumn
         THEN [c |-> 0, x |-> LeftEdge, y |-> TopEdge + head,
               page |-> f_page + 1, cont |-> age_group, break |-> "page"]
         ELSE [c |-> f_c + 1, x |-> f_x + ColumnWidth, y |-> TopEdge,
               page |-> f_page, cont |-> f_cont, break |-> "column"]
    ELSE [c |-> f_c, x |-> f_x, y |-> f_y, page |-> f_page, cont |-> f_cont,
          break |-> "none"]

\* for ag,events in data: the age-group break test and the age-group header
StartAgeGroup ==
    /\ f_pc = "age_group"
    /\ f_ag < MaxAgeGroups
    /\ \E nev \in 1..MaxEvents, first \in SwimmerCounts :
         LET j == Jump(AgeGroupRequired(first), Nil, 0)
         IN  /\ f_nev' = nev
             /\ f_first' = first
             /\ f_c' = j.c /\ f_x' = j.x /\ f_page' = j.page
             /\ f_cont' = j.cont /\ f_break' = j.break
             /\ f_y' = j.y + AgeGroupHeight
    /\ f_ev' = 0
    /\ f_pc' = "event"
    /\ UNCHANGED <<f_ag, f_n, f_left, f_block>>
    /\ UNCHANGED <<labelVars, ribbonVars, bestVars, schemaVars, orchVars, gridVars>>

\* for event,swimmers in events: the event break test and the event header
StartEvent ==
    /\ f_pc = "event"
    /\ f_ev < f_nev
    /\ \E n \in (IF f_ev = 0 THEN {f_first} ELSE SwimmerCounts) :
         LET j == Jump(EventRequired(n), Some(f_ag + 1), AgeGroupHeight)
         IN  /\ f_n' = n
             /\ f_left' = n
             /\ f_c' = j.c /\ f_x' = j.x /\ f_page' = j.page
             /\ f_cont' = j.cont /\ f_break' = j.break
             /\ f_block' = [c |-> j.c, x |-> j.x, y |-> j.y, page |-> j.page]
             /\ f_y' = j.y + EventHeight
    /\ f_pc' = "swimmer"
    /\ UNCHANGED <<f_ag, f_nev, f_ev, f_first>>
    /\ UNCHANGED <<labelVars, ribbonVars, bestVars, schemaVars, orchVars, gridVars>>

\* Mutant of DrawSwimmer: the fit test is made for every row, and a row that
\* does not fit goes to the next column or page.
DrawSwimmer_reflow ==
    /\ f_pc = "swimmer"
    /\ f_left > 0
    /\ LET j == Jump(SwimmerHeight, Some(f_ag + 1), AgeGroupHeight)
       IN  /\ f_c' = j.c /\ f_x' = j.x /\ f_page' = j.page
           /\ f_cont' = j.cont
           /\ f_y' = j.y + SwimmerHeight
    /\ f_left' = f_left - 1
    /\ UNCHANGED <<f_pc, f_ag, f_nev, f_ev, f_first, f_n, f_block, f_break>>
    /\ UNCHANGED <<labelVars, ribbonVars, bestVars, schemaVars, orchVars, gridVars>>

\* for name, time, _ in swimmers: one row
DrawSwimmer ==
    /\ f_pc = "swimmer"
    /\ f_left > 0
    /\ f_y' = f_y + SwimmerHeight
    /\ f_left' = f_left - 1
    /\ UNCHANGED <<f_pc, f_c, f_x, f_page, f_ag, f_nev, f_ev, f_first, f_n,
                   f_block, f_break, f_cont>>
    /\ UNCHANGED <<labelVars, ribbonVars, bestVars, schemaVars, orchVars, gridVars>>

\* y += _EventPad
EndEvent ==
    /\ f_pc = "swimmer"
    /\ f_left = 0
    /\ f_y' = f_y + EventPad
    /\ f_ev' = f_ev + 1
    /\ f_pc' = "event"
    /\ UNCHANGED <<f_c, f_x, f_page, f_ag, f_nev, f_first, f_n, f_left,
                   f_block, f_break, f_cont>>
    /\ UNCHANGED <<labelVars, ribbonVars, bestVars, schemaVars, orchVars, gridVars>>

\* y += _AgeGroupPad
EndAgeGroup ==
    /\ f_pc = "event"
    /\ f_ev = f_nev
    /\ f_y' = f_y + AgeGroupPad
    /\ f_ag' = f_ag + 1
    /\ f_pc' = "age_group"
    /\ UNCHANGED <<f_c, f_x, f_page, f_nev, f_ev, f_first, f_n, f_left,
                   f_block, f_break, f_cont>>
    /\ UNCHANGED <<labelVars, ribbonVars, bestVars, schemaVars, orchVars, gridVars>>

\* pdf.output(dst,'F'), once the outer loop is over
OutputReport ==
    /\ f_pc = "age_group"
    /\ f_pc' = "done"
    /\ UNCHANGED <<f_c, f_x, f_y, f_page, f_ag, f_nev, f_ev, f_first, f_n,
                   f_left, f_block, f_break, f_cont>>
    /\ UNCHANGED <<labelVars, ribbonVars, bestVars, schemaVars, orchVars, gridVars>>

----------------------------------------------------------------------------
(* gen_best_times.py: CSV input file and MCSL events data.  The event label  *)
(* f"{d} {e}" is the record Event(d, e).                                     *)

BestTimesColumns ==
    << Col(0, "AgeGroup"), Col(0, "FirstName"), Col(0, "LastName"),
       Col(0, "Age"), Col(0, "Event"), Col(0, "Time"),
       Col(0, "ConvertedTime"), Col(0, "ConvertedHundredths"),
       Col(0, "Date"), Col(0, "SwimMeet") >>

AgeGroups ==
    << "Girls 8 & Under", "Boys 8 & Under", "Girls 9-10", "Boys 9-10",
       "Girls 11-12", "Boys 11-12", "Girls 13-14", "Boys 13-14",
       "Women 15-18", "Men 15-18" >>

EventNames ==
    << "Freestyle", "Backstroke", "Breaststroke", "Butterfly",
       "Individual Medley" >>

EventDistances ==
    [ e \in { EventNames[k] : k \in 1..Len(EventNames) } |->
        CASE e = "Freestyle"         -> <<25, 50, 100>>
          [] e = "Backstroke"        -> <<25, 50, 100>>
          [] e = "Breaststroke"      -> <<25, 50, 100>>
          [] e = "Butterfly"         -> <<25, 50>>
          [] e = "Individual Medley" -> <<100>> ]

AgeDistances ==
    [ ag \in { AgeGroups[k] : k \in 1..Len(AgeGroups) } |->
        CASE ag \in {"Girls 8 & Under", "Boys 8 & Under"} -> <<25, 25, 25, 25, 100>>
          [] ag \in {"Girls 9-10", "Boys 9-10"}           -> <<50, 25, 25, 25, 100>>
          [] ag \in {"Girls 11-12", "Boys 11-12"}         -> <<50, 50, 50, 50, 100>>
          [] ag \in {"Girls 13-14", "Boys 13-14"}         -> <<50, 50, 50, 50, 100>>
          [] ag \in {"Women 15-18", "Men 15-18"}          -> <<100, 100, 100, 50, 100>> ]

Event(d, e) == [d |-> d, e |-> e]

\* _AgeEvents[ag] = [f"{d} {e}" for e,d in zip(_EventNames, _AgeDistances[ag])]
AgeEvents ==
    [ ag \in DOMAIN AgeDistances |->
        [k \in 1..Len(EventNames) |-> Event(AgeDistances[ag][k], EventNames[k])] ]

\* _AllEvents = tuple(f"{d} {e}" for e in _EventNames for d in _EventDistances[e])
AllEvents ==
    Flatten([k \in 1..Len(EventNames) |->
                [j \in 1..Len(EventDistances[EventNames[k]]) |->
                    Event(EventDistances[EventNames[k]][j], EventNames[k])]])

Range(seq) == { seq[k] : k \in 1..Len(seq) }

----------------------------------------------------------------------------
(* Best-times rows *)

\* time = int(time)/100: the seconds and hundredths of a hundredths count
Hundredths(h) == [sec |-> h \div 100, cs |-> h % 100]

\* The order of two times, as floats.
TimeLess(a, b) == a.sec < b.sec \/ (a.sec = b.sec /\ a.cs < b.cs)

\* row i of a file: the swimmer of row i bears the name i
BestRow(i, age_group, event, h) ==
    << <<age_group>>, <<"First">>, <<i>>, <<"9">>, <<event>>, <<"t">>,
       <<"t">>, <<h>>, <<"date">>, <<"meet">> >>

\* two age groups of the ten, and a label that is none of them
FileAgeGroups == { "Girls 8 & Under", "Girls 9-10", "Masters" }
\* an event of the first age group, one of the second, and one that is in
\* no table
FileEvents == { Event(25, "Freestyle"), Event(50, "Freestyle"),
                Event(200, "Freestyle") }
FileTimes == { 50 * k : k \in 1..MaxBestTimes }

IsBestTimesFile(header, lines) ==
    \/ /\ header = SubSeq(BestTimesColumns, 1, 9)
       /\ lines = <<>>
    \/ /\ header = BestTimesColumns
       /\ \E k \in 0..MaxBestRows :
            \E f \in [1..k -> FileAgeGroups \X FileEvents \X FileTimes] :
              lines = [i \in 1..k |-> BestRow(i, f[i][1], f[i][2], f[i][3])]

----------------------------------------------------------------------------
(* gen_best_times.py: read_data *)

\* The try block of read_data: TRUE when the header passes.
best_read_data_header(header) ==
    /\ Len(header) = Len(BestTimesColumns)
    /\ \A i \in 1..Len(header) : header[i] = BestTimesColumns[i]

\* Mutant of InitialEvents: an age-group dict starts empty.
InitialEvents_none(ag) == {}

\* The events a new age-group dict starts with.
InitialEvents(ag) == Range(AgeEvents[ag])

\* data = { ag:{e:list() for e in _AgeEvents[ag]} for ag in _AgeGroups }
InitialData ==
    [ ag \in Range(AgeGroups) |-> [e \in InitialEvents(ag) |-> <<>>] ]

\* the entry appended for a line: (swimmer, time, date)
LineEntry(line) ==
    << <<At(line, 1)[1], At(line, 2)[1], At(line, 3)[1]>>,
       Hundredths(At(line, 7)[1]),
       At(line, 8) >>

\* One pass of "for line in lines", for a line whose age group is known.
best_read_data_line(data, line) ==
    LET age_group == At(line, 0)[1]
        event     == At(line, 4)[1]
        events    == data[age_group]
        old       == IF event \in DOMAIN events THEN events[event] ELSE <<>>
    IN  [data EXCEPT ![age_group] =
            [e \in DOMAIN events \cup {event} |->
                IF e = event THEN Append(old, LineEntry(line)) ELSE events[e]]]

----------------------------------------------------------------------------
(* gen_best_times.py: gen_unformatted_report *)

RECURSIVE InsertSorted(_, _)
\* x put into a list in time order, after the entries that are not slower
InsertSorted(sorted, x) ==
    IF sorted = <<>> THEN <<x>>
    ELSE IF TimeLess(x[2], Head(sorted)[2]) THEN <<x>> \o sorted
    ELSE <<Head(sorted)>> \o InsertSorted(Tail(sorted), x)

RECURSIVE SortedByTime(_)
SortedByTime(swimmers) ==
    IF swimmers = <<>> THEN <<>>
    ELSE InsertSorted(SortedByTime(SubSeq(swimmers, 1, Len(swimmers) - 1)),
                      swimmers[Len(swimmers)])

\* Mutant of gen_unformatted_swimmers: a sort that turns runs of equal times
\* around.
gen_unformatted_swimmers_unstable(data) ==
    SortedByTime([k \in 1..Len(data) |-> data[Len(data) + 1 - k]])

\* sorted(data, key=lambda x:x[1]): Python's sort is stable
gen_unformatted_swimmers(data) == SortedByTime(data)

\* [ (e, gen_unformatted_swimmers(data[e])) for e in _AllEvents if e in data ]
gen_unformatted_events(data) ==
    LET kept == SelectSeq(AllEvents, LAMBDA e : e \in DOMAIN data)
    IN  [k \in 1..Len(kept) |-> <<kept[k], gen_unformatted_swimmers(data[kept[k]])>>]

\* [ (ag, gen_unformatted_events(data[ag])) for ag in _AgeGroups ]
gen_unformatted_report(data) ==
    [k \in 1..Len(AgeGroups) |->
        <<AgeGroups[k], gen_unformatted_events(data[AgeGroups[k]])>>]

----------------------------------------------------------------------------
(* gen_best_times.py: main *)

BestIdle ==
    /\ b_header = <<>> /\ b_lines = <<>> /\ b_i = 0 /\ b_data = <<>>
    /\ b_report = <<>> /\ b_pc = "idle" /\ b_exit = Nil /\ b_written = FALSE

BestInit ==
    /\ IsBestTimesFile(b_header, b_lines)
    /\ b_i = 0 /\ b_data = <<>> /\ b_report = <<>>
    /\ b_pc = "read_data" /\ b_exit = Nil /\ b_written = FALSE

\* read_data, up to the row loop: the header test and the empty data
BestReadHeader ==
    /\ b_pc = "read_data"
    /\ IF best_read_data_header(b_header)
       THEN /\ b_data' = InitialData
            /\ b_pc' = "lines"
            /\ UNCHANGED b_exit
       ELSE /\ b_pc' = "exit"
            /\ b_exit' = Some(1)
            /\ UNCHANGED b_data
    /\ UNCHANGED <<b_header, b_lines, b_i, b_report, b_written>>
    /\ UNCHANGED <<labelVars, ribbonVars, layoutVars, schemaVars, orchVars, gridVars>>

\* read_data, one pass of "for line in lines"; the assertion on the age group
\* is not caught: the run ends with a traceback and exit code 1
BestReadLine ==
    /\ b_pc = "lines"
    /\ b_i < Len(b_lines)
    /\ LET line == b_lines[b_i + 1]
       IN  IF At(line, 0)[1] \in Range(AgeGroups)
           THEN /\ b_data' = best_read_data_line(b_data, line)
                /\ b_i' = b_i + 1
                /\ UNCHANGED <<b_pc, b_exit>>
           ELSE /\ b_pc' = "exit"
                /\ b_exit' = Some(1)
                /\ UNCHANGED <<b_data, b_i>>
    /\ UNCHANGED <<b_header, b_lines, b_report, b_written>>
    /\ UNCHANGED <<labelVars, ribbonVars, layoutVars, schemaVars, orchVars, gridVars>>

\* report = gen_unformatted_report(data), once read_data has returned
GenUnformattedReport ==
    /\ b_pc = "lines"
    /\ b_i = Len(b_lines)
    /\ b_report' = gen_unformatted_report(b_data)
    /\ b_pc' = "report"
    /\ UNCHANGED <<b_header, b_lines, b_i, b_data, b_exit, b_written>>
    /\ UNCHANGED <<labelVars, ribbonVars, layoutVars, schemaVars, orchVars, gridVars>>

\* gen_formatted_report(report, args.dst): the layout (SpecLayout) ends with
\* pdf.output
GenFormattedReport ==
    /\ b_pc = "report"
    /\ b_written' = TRUE
    /\ b_exit' = Some(0)
    /\ b_pc' = "exit"
    /\ UNCHANGED <<b_header, b_lines, b_i, b_data, b_report>>
    /\ UNCHANGED <<labelVars, ribbonVars, layoutVars, schemaVars, orchVars, gridVars>>

----------------------------------------------------------------------------
(* gen_all.py: is_best_times_file, validate_black_ribbon_file *)

\* is_best_times_file: any exception is "not a best-times file"
is_best_times_file(header) ==
    /\ Len(header) = Len(BestTimesColumns)
    /\ \A i \in 1..Len(header) : header[i] = BestTimesColumns[i]

\* Mutant of validate_header: the remainder of the division is not looked at.
validate_header_any_remainder(header) ==
    LET n_meet_columns == Len(header) - Len(LeadColumns) - Len(TailColumns)
    IN  IF ~(n_meet_columns > 0) THEN Nil
        ELSE LET n_meets  == n_meet_columns \div Len(MeetColumns)
                 expected == LeadColumns \o MeetHeader(n_meets) \o TailColumns
                 n_zip    == IF Len(header) < Len(expected)
                             THEN Len(header) ELSE Len(expected)
             IN  IF \A i \in 1..n_zip : header[i] = expected[i]
                 THEN Some(n_meets) ELSE Nil

\* The header part of validate_black_ribbon_file: Some(n_meets) when no
\* assertion fails, Nil otherwise.
validate_header(header) ==
    LET n_lead == Len(LeadColumns)
        n_tail == Len(TailColumns)
        n_meet == Len(MeetColumns)
        n_meet_columns == Len(header) - n_lead - n_tail
    IN  IF ~(n_meet_columns > 0) THEN Nil
        ELSE LET n_meets  == n_meet_columns \div n_meet
                 n_extra  == n_meet_columns % n_meet
                 expected == LeadColumns \o MeetHeader(n_meets) \o TailColumns
                 n_zip    == IF Len(header) < Len(expected)
                             THEN Len(header) ELSE Len(expected)
             IN  IF n_extra /= 0 THEN Nil
                 ELSE IF \A i \in 1..n_zip : header[i] = expected[i]
                      THEN Some(n_meets) ELSE Nil

\* The time cell that records a meet: line[n_lead + 2 + meet*n_meet].
MeetSwum(line, meet) == Truthy(At(line, Len(LeadColumns) + 2 + meet * Len(MeetColumns)))

\* One pass of "for meet in range(n_meets)" over one line; meets_in_file is
\* the dict as the sequence of its (key, value) pairs in insertion order.
validate_line(meets_in_file, line, n_meets) ==
    LET RECURSIVE scan(_, _)
        scan(found, meet) ==
            IF meet >= n_meets THEN found
            ELSE IF /\ MeetSwum(line, meet)
                    /\ ~\E k \in 1..Len(found) : found[k][1] = meet
                 THEN scan(Append(found,
                                  <<meet, At(line, Len(LeadColumns)
                                                   + meet * Len(MeetColumns))>>),
                           meet + 1)
                 ELSE scan(found, meet + 1)
    IN  scan(meets_in_file, 0)

RECURSIVE validate_lines(_, _, _)
validate_lines(meets_in_file, lines, n_meets) ==
    IF lines = <<>> THEN meets_in_file
    ELSE validate_lines(validate_line(meets_in_file, Head(lines), n_meets),
                        Tail(lines), n_meets)

\* validate_black_ribbon_file: Nil (None) on any exception, among them the
\* IndexError of a line too short for its last meet block, and
\* Some(meets_in_file) otherwise
validate_black_ribbon_file(header, lines) ==
    LET h == validate_header(header)
    IN  IF h = Nil THEN Nil
        ELSE IF \E i \in 1..Len(lines) :
                   Len(lines[i]) <= Len(LeadColumns) + 2
                                    + (h[1] - 1) * Len(MeetColumns)
             THEN Nil
             ELSE Some(validate_lines(<<>>, lines, h[1]))

----------------------------------------------------------------------------
(* The two validators on one header *)

\* a column that is not the one expected in its place: another name, or the
\* name under the next meet number
WrongColumns(c) == { Col(c.meet, "Other"), Col(c.meet + 1, c.name) }

\* The headers of the model, from the header h of n meet blocks: h itself, h
\* with one column wrong, h cut short, h with a column too many, and h with
\* part of one more meet block.
HeadersFrom(n) ==
    LET h == HeaderOf(n)
    IN  {h}
        \cup UNION { { [h EXCEPT ![p] = c] : c \in WrongColumns(h[p]) } :
                     p \in 1..Len(h) }
        \cup { SubSeq(h, 1, m) : m \in 0..(Len(h) - 1) }
        \cup { h \o <<Col(0, "Other")>>, h \o <<TailColumns[1]>> }
        \cup { SubSeq(h, 1, 8 + 6 * n)
               \o SubSeq(HeaderOf(n + 1), 8 + 6 * n + 1, 8 + 6 * n + m)
               \o TailColumns : m \in 1..5 }

SchemaIdle ==
    /\ s_header = <<>> /\ s_lines = <<>>
    /\ s_read_data = "idle" /\ s_validate = "idle"

\* the file has no row, or one row of as many swum meet blocks as the header
\* was made for
SchemaInit ==
    /\ \E n \in 0..MaxHeaderMeets :
         /\ s_header \in HeadersFrom(n)
         /\ s_lines \in { <<>>, <<Row([k \in 1..n |-> Block(<<"meet">>, <<"r">>, <<1>>)])>> }
    /\ s_read_data = "pending"
    /\ s_validate = "pending"

\* gen_black_ribbons.read_data on the file: it exits with code 1 on a header
\* it does not accept
SchemaReadData ==
    /\ s_read_data = "pending"
    /\ s_read_data' = IF read_data_header(s_header) = Nil
                      THEN "reject" ELSE "accept"
    /\ UNCHANGED <<s_header, s_lines, s_validate>>
    /\ UNCHANGED <<labelVars, ribbonVars, layoutVars, bestVars, orchVars, gridVars>>

\* gen_all.validate_black_ribbon_file on the file: it returns None for a file
\* it does not accept
SchemaValidateFile ==
    /\ s_validate = "pending"
    /\ s_validate' = IF validate_black_ribbon_file(s_header, s_lines) = Nil
                     THEN "reject" ELSE "accept"
    /\ UNCHANGED <<s_header, s_lines, s_read_data>>
    /\ UNCHANGED <<labelVars, ribbonVars, layoutVars, bestVars, orchVars, gridVars>>

----------------------------------------------------------------------------
(* gen_all.py: the module script *)

File(header, lines, mtime) == [header |-> header, lines |-> lines, mtime |-> mtime]

\* the blocks of the rows of the report-card files of the directory: a meet
\* not swum, a meet swum, a result with no meet name
OrchBlocks ==
    { Block(<<>>, <<>>, <<>>), Block(<<"meet">>, <<"r">>, <<1>>),
      Block(<<>>, <<"r">>, <<1>>) }

\* an older best-times file with no row, and a newer one with a row whose age
\* group gen_best_times.py does not know
OldBestTimesFile == File(BestTimesColumns, <<>>, 1)
NewBestTimesFile ==
    File(BestTimesColumns,
         << BestRow(1, "Masters", Event(25, "Freestyle"), 50) >>, 2)
\* a report-card file of one meet, swum by one swimmer
SmallReportCard ==
    File(HeaderOf(1), << Row(<< Block(<<"meet">>, <<"r">>, <<1>>) >>) >>, 1)
\* a csv file that is neither
OtherFile == File(<< Col(0, "Other") >>, <<>>, 1)

OrchIdle ==
    /\ o_dir = <<>> /\ o_k = 0 /\ o_best = Nil /\ o_best_mtime = 0
    /\ o_card = Nil /\ o_meets = Nil /\ o_pc = "idle" /\ o_j = 0
    /\ o_calls = <<>> /\ o_exit = Nil

\* the directory holds up to MaxFiles csv files, in the order glob gives
\* them: the files above and one report-card file of 1..MaxMeets meet blocks
\* and 0..MaxRows rows
OrchInit ==
    /\ \E n \in 1..MaxMeets, k \in 0..MaxRows :
         \E bss \in [1..k -> [1..n -> OrchBlocks]] :
           \E m \in 0..MaxFiles :
             o_dir \in [1..m -> { OldBestTimesFile, NewBestTimesFile,
                                  File(HeaderOf(n), [i \in 1..k |-> Row(bss[i])], 1),
                                  SmallReportCard, OtherFile }]
    /\ o_k = 0 /\ o_best = Nil /\ o_best_mtime = 0
    /\ o_card = Nil /\ o_meets = Nil /\ o_pc = "scan" /\ o_j = 0
    /\ o_calls = <<>> /\ o_exit = Nil

\* max(meets.keys())
MaxKey(meets) == MaxOf([i \in 1..Len(meets) |-> meets[i][1]])

\* One pass of "for file in glob.glob(...)".
OrchScanFile ==
    /\ o_pc = "scan"
    /\ o_k < Len(o_dir)
    /\ o_k' = o_k + 1
    /\ LET file == o_dir[o_k + 1]
       IN  IF is_best_times_file(file.header)
           THEN /\ IF file.mtime > o_best_mtime
                   THEN o_best_mtime' = file.mtime /\ o_best' = Some(file)
                   ELSE UNCHANGED <<o_best_mtime, o_best>>
                /\ UNCHANGED <<o_card, o_meets>>
           ELSE LET meets == validate_black_ribbon_file(file.header, file.lines)
                IN  /\ IF meets /= Nil /\ meets[1] /= <<>>
                       THEN IF o_card /= Nil
                            THEN IF MaxKey(meets[1]) > MaxKey(o_meets[1])
                                 THEN o_card' = Some(file) /\ o_meets' = meets
                                 ELSE UNCHANGED <<o_card, o_meets>>
                            ELSE o_card' = Some(file) /\ o_meets' = meets
                       ELSE UNCHANGED <<o_card, o_meets>>
                    /\ UNCHANGED <<o_best_mtime, o_best>>
    /\ UNCHANGED <<o_dir, o_pc, o_j, o_calls, o_exit>>
    /\ UNCHANGED <<labelVars, ribbonVars, layoutVars, bestVars, schemaVars, gridVars>>

\* assert best_times_file; assert black_ribbon_file: a failed assertion ends
\* the script with exit code 1
OrchAssertFiles ==
    /\ o_pc = "scan"
    /\ o_k = Len(o_dir)
    /\ IF o_best /= Nil /\ o_card /= Nil
       THEN o_pc' = "best_times" /\ UNCHANGED o_exit
       ELSE o_pc' = "exit" /\ o_exit' = Some(1)
    /\ UNCHANGED <<o_dir, o_k, o_best, o_best_mtime, o_card, o_meets, o_j,
                   o_calls>>
    /\ UNCHANGED <<labelVars, ribbonVars, layoutVars, bestVars, schemaVars, gridVars>>

\* the exit code of "gen_best_times.py src dst": read_data exits with 1 on a
\* header it does not accept, and an unknown age group fails its assertion
BestTimesExit(file) ==
    IF ~best_read_data_header(file.header) THEN 1
    ELSE IF \E i \in 1..Len(file.lines) :
              At(file.lines[i], 0)[1] \notin Range(AgeGroups)
         THEN 1 ELSE 0

\* the exit code of "gen_black_ribbons.py src dst --meet meet", meet /= 0
BlackRibbonsExit(file, meet) ==
    LET h == read_data_header(file.header)
    IN  IF h = Nil THEN 1
        ELSE IF validate_selected_meet(
                    read_data_meets([i \in 1..h[1] |-> Nil], file.lines, h[1]),
                    meet)
             THEN 0 ELSE 1

Call(prog, meet, dst, code) ==
    [prog |-> prog, meet |-> meet, dst |-> dst, code |-> code]

\* Mutant of OrchRunBestTimes: a child that fails ends the script, as
\* subprocess.run(cmd, check=True) would.
OrchRunBestTimes_check ==
    /\ o_pc = "best_times"
    /\ LET code == BestTimesExit(o_best[1])
       IN  /\ o_calls' = Append(o_calls,
                                Call("gen_best_times", Nil, <<"best_times">>, code))
           /\ IF code = 0
              THEN o_pc' = "ribbons" /\ UNCHANGED o_exit
              ELSE o_pc' = "exit" /\ o_exit' = Some(1)
    /\ UNCHANGED <<o_dir, o_k, o_best, o_best_mtime, o_card, o_meets, o_j>>
    /\ UNCHANGED <<labelVars, ribbonVars, layoutVars, bestVars, schemaVars, gridVars>>

\* subprocess.run(gen_best_times.py ...): the exit code is not looked at
OrchRunBestTimes ==
    /\ o_pc = "best_times"
    /\ o_calls' = Append(o_calls,
                         Call("gen_best_times", Nil, <<"best_times">>,
                              BestTimesExit(o_best[1])))
    /\ o_pc' = "ribbons"
    /\ UNCHANGED <<o_dir, o_k, o_best, o_best_mtime, o_card, o_meets, o_j,
                   o_exit>>
    /\ UNCHANGED <<labelVars, ribbonVars, layoutVars, bestVars, schemaVars, gridVars>>

\* for meet,name in black_ribbon_meets.items(): if meet == 0: continue
OrchSkipMeet ==
    /\ o_pc = "ribbons"
    /\ o_j < Len(o_meets[1])
    /\ o_meets[1][o_j + 1][1] = 0
    /\ o_j' = o_j + 1
    /\ UNCHANGED <<o_dir, o_k, o_best, o_best_mtime, o_card, o_meets, o_pc,
                   o_calls, o_exit>>
    /\ UNCHANGED <<labelVars, ribbonVars, layoutVars, bestVars, schemaVars, gridVars>>

\* the rest of the loop body: subprocess.run(gen_black_ribbons.py ... --meet
\* str(meet)); the exit code is not looked at
OrchRunRibbons ==
    /\ o_pc = "ribbons"
    /\ o_j < Len(o_meets[1])
    /\ LET meet == o_meets[1][o_j + 1][1]
           name == o_meets[1][o_j + 1][2]
       IN  /\ meet /= 0
           /\ o_calls' = Append(o_calls,
                                Call("gen_black_ribbons", Some(meet), name,
                                     BlackRibbonsExit(o_card[1], meet)))
    /\ o_j' = o_j + 1
    /\ UNCHANGED <<o_dir, o_k, o_best, o_best_mtime, o_card, o_meets, o_pc,
                   o_exit>>
    /\ UNCHANGED <<labelVars, ribbonVars, layoutVars, bestVars, schemaVars, gridVars>>

\* the loop is over and the script ends
OrchExit ==
    /\ o_pc = "ribbons"
    /\ o_j = Len(o_meets[1])
    /\ o_pc' = "exit"
    /\ o_exit' = Some(0)
    /\ UNCHANGED <<o_dir, o_k, o_best, o_best_mtime, o_card, o_meets, o_j,
                   o_calls>>
    /\ UNCHANGED <<labelVars, ribbonVars, layoutVars, bestVars, schemaVars, gridVars>>

----------------------------------------------------------------------------
(* gen_black_ribbons.py: gen_formatted_labels *)

NumColumns == 3
NumRows == 10

GridIdle ==
    /\ g_n = 0 /\ g_bad = 0 /\ g_k = 0 /\ g_r = 0 /\ g_c = 0 /\ g_page = 0
    /\ g_cells = <<>> /\ g_pc = "idle"

\* pdf.add_page(); r = 0; c = 0, for a list of g_n labels of which the first,
\* the last or none has a stroke that is no key of _StrokeNames
GridInit ==
    /\ g_n \in 0..MaxLabels
    /\ g_bad \in {0, 1, g_n}
    /\ g_k = 0 /\ g_r = 0 /\ g_c = 0 /\ g_page = 0
    /\ g_cells = <<>> /\ g_pc = "loop"

\* Mutant of Advance: the column counter is not set back and no page is added.
Advance_no_page(r, c, page) ==
    IF r + 1 = NumRows
    THEN [r |-> 0, c |-> c + 1, page |-> page]
    ELSE [r |-> r + 1, c |-> c, page |-> page]

\* r += 1; if r == _NumRows: r = 0; c += 1; if c == _NumColumns: c = 0;
\* pdf.add_page()
Advance(r, c, page) ==
    IF r + 1 = NumRows
    THEN IF c + 1 = NumColumns
         THEN [r |-> 0, c |-> 0, page |-> page + 1]
         ELSE [r |-> 0, c |-> c + 1, page |-> page]
    ELSE [r |-> r + 1, c |-> c, page |-> page]

\* One pass of "for label in labels": the label is drawn in the cell (c, r)
\* of the current page and the counters move on.
DrawLabel ==
    /\ g_pc = "loop"
    /\ g_k < g_n
    /\ g_k + 1 /= g_bad
    /\ g_cells' = Append(g_cells, [page |-> g_page, c |-> g_c, r |-> g_r])
    /\ LET next == Advance(g_r, g_c, g_page)
       IN  g_r' = next.r /\ g_c' = next.c /\ g_page' = next.page
    /\ g_k' = g_k + 1
    /\ UNCHANGED <<g_n, g_bad, g_pc>>
    /\ UNCHANGED <<labelVars, ribbonVars, layoutVars, bestVars, schemaVars, orchVars>>

\* A pass for a label whose stroke is no key of _StrokeNames: the KeyError
\* ends the run after the swimmer's name was put in the cell.
DrawLabelFails ==
    /\ g_pc = "loop"
    /\ g_k < g_n
    /\ g_k + 1 = g_bad
    /\ g_cells' = Append(g_cells, [page |-> g_page, c |-> g_c, r |-> g_r])
    /\ g_pc' = "failed"
    /\ UNCHANGED <<g_n, g_bad, g_k, g_r, g_c, g_page>>
    /\ UNCHANGED <<labelVars, ribbonVars, layoutVars, bestVars, schemaVars, orchVars>>

\* pdf.output(dst,'F')
OutputLabels ==
    /\ g_pc = "loop"
    /\ g_k = g_n
    /\ g_pc' = "done"
    /\ UNCHANGED <<g_n, g_bad, g_k, g_r, g_c, g_page, g_cells>>
    /\ UNCHANGED <<labelVars, ribbonVars, layoutVars, bestVars, schemaVars, orchVars>>

----------------------------------------------------------------------------
(* Specifications *)

LabelNext == GenUnformattedLabel
SpecLabelInit == LabelInit /\ RibbonIdle /\ LayoutIdle /\ BestIdle /\ SchemaIdle /\ OrchIdle /\ GridIdle
SpecLabel == SpecLabelInit /\ [][LabelNext]_vars

RibbonNext ==
    \/ ReadData
    \/ ShowMeets
    \/ ValidateSelectedMeet
    \/ SelectLatestMeet
    \/ GenUnformattedLabels
    \/ GenFormattedLabels
SpecRibbonsInit == RibbonInit /\ LabelIdle /\ LayoutIdle /\ BestIdle /\ SchemaIdle /\ OrchIdle /\ GridIdle
SpecRibbons == SpecRibbonsInit /\ [][RibbonNext]_vars

LayoutNext ==
    \/ StartAgeGroup
    \/ StartEvent
    \/ DrawSwimmer
    \/ EndEvent
    \/ EndAgeGroup
    \/ OutputReport
SpecLayoutInit == LayoutInit /\ LabelIdle /\ RibbonIdle /\ BestIdle /\ SchemaIdle /\ OrchIdle /\ GridIdle
SpecLayout == SpecLayoutInit /\ [][LayoutNext]_vars

BestNext ==
    \/ BestReadHeader
    \/ BestReadLine
    \/ GenUnformattedReport
    \/ GenFormattedReport
SpecBestInit == BestInit /\ LabelIdle /\ RibbonIdle /\ LayoutIdle /\ SchemaIdle /\ OrchIdle /\ GridIdle
SpecBest == SpecBestInit /\ [][BestNext]_vars

SchemaNext ==
    \/ SchemaReadData
    \/ SchemaValidateFile
SpecSchemaInit ==
    SchemaInit /\ LabelIdle /\ RibbonIdle /\ LayoutIdle /\ BestIdle /\ OrchIdle /\ GridIdle
SpecSchema == SpecSchemaInit /\ [][SchemaNext]_vars

OrchNext ==
    \/ OrchScanFile
    \/ OrchAssertFiles
    \/ OrchRunBestTimes
    \/ OrchSkipMeet
    \/ OrchRunRibbons
    \/ OrchExit
SpecOrchInit ==
    OrchInit /\ LabelIdle /\ RibbonIdle /\ LayoutIdle /\ BestIdle /\ SchemaIdle
    /\ GridIdle
SpecOrch == SpecOrchInit /\ [][OrchNext]_vars

GridNext ==
    \/ DrawLabel
    \/ DrawLabelFails
    \/ OutputLabels
SpecGridInit ==
    GridInit /\ LabelIdle /\ RibbonIdle /\ LayoutIdle /\ BestIdle /\ SchemaIdle
    /\ OrchIdle
SpecGrid == SpecGridInit /\ [][GridNext]_vars

----------------------------------------------------------------------------
(* Claims about gen_unformatted_label (SpecLabel) *)

\* the ResultSec cell of meet block i (0-based) of the row
BlockTime(i) == l_blocks[i + 1][3]

\* the non-empty times of the meet blocks before the target meet
PriorBlockTimes ==
    { Float(BlockTime(i)) : i \in { j \in 0..(l_meet - 1) : BlockTime(j) /= <<>> } }

LabelDue ==
    /\ BlockTime(l_meet) /= <<>>
    /\ PriorBlockTimes /= {}
    /\ \A p \in PriorBlockTimes : Float(BlockTime(l_meet)) < p

\* the rows that agree with l_line on meet blocks 0..l_meet
SamePrefixRows ==
    { Row([k \in 1..Len(l_blocks) |->
              IF k <= l_meet + 1 THEN l_blocks[k] ELSE later[k]]) :
        later \in [(l_meet + 2)..Len(l_blocks) -> TimedBlocks(LabelTime)] }

\* C1: gen_unformatted_label emits a label if and only if the block-M time is
\* non-empty, some block before M has a non-empty time, and the block-M time is
\* strictly less than the least of those prior times; the label's new_time is
\* the block-M time and its time_drop is (least prior time - block-M time),
\* which is positive; the blocks after M do not influence the result.
C1_LabelRule ==
    l_pc = "returned" =>
        /\ (l_label /= Nil) <=> LabelDue
        /\ l_label /= Nil =>
             LET best == CHOOSE m \in PriorBlockTimes :
                             \A p \in PriorBlockTimes : m <= p
             IN  /\ l_label[1].new_time = Float(BlockTime(l_meet))
                 /\ l_label[1].time_drop = best - Float(BlockTime(l_meet))
                 /\ l_label[1].time_drop > 0
        /\ \A row \in SamePrefixRows :
             gen_unformatted_label(row, l_meet) = l_label

\* a label is emitted against two different prior times, the better of which
\* is not the first, while a later meet block beats that prior best as well
C1_Witness ==
    /\ l_pc = "returned"
    /\ l_label /= Nil
    /\ l_meet = 2
    /\ Len(l_blocks) = 4
    /\ BlockTime(0) /= <<>> /\ BlockTime(1) /= <<>> /\ BlockTime(3) /= <<>>
    /\ Float(BlockTime(1)) < Float(BlockTime(0))
    /\ Float(BlockTime(3)) < Float(BlockTime(1))
    /\ l_label[1].time_drop = 1

----------------------------------------------------------------------------
(* Claims about gen_black_ribbons.main (SpecRibbons) *)

\* the header is that of a report-card file: the run got past read_data
ValidFile == r_error /= "schema" /\ r_pc /= "read_data"
\* the run is past the choice of the target meet
MeetChosen == ValidFile /\ r_pc /= "parsed"
DefaultRun  == ~r_args.show_list /\ r_args.meet = Nil
ExplicitRun == ~r_args.show_list /\ r_args.meet /= Nil

\* the meet indices with an entry in the meet directory
DirectoryIndices == { i \in 0..(Len(r_meets) - 1) : At(r_meets, i) /= Nil }

\* the number of meet blocks of the file, and whether some row of the file
\* has both a name and a result in meet block k
FileBlockCount == (Len(r_header) - 13) \div 6
RowHasMeet(k) ==
    \E i \in 1..Len(r_lines) :
        /\ r_lines[i][8 + 6 * k + 1] /= <<>>
        /\ r_lines[i][8 + 6 * k + 2] /= <<>>

FailedWithoutOutput ==
    /\ r_pc = "exit"
    /\ r_exit = Some(1)
    /\ r_meet = Nil
    /\ r_labels = <<>>
    /\ ~r_written

\* C2: with no explicit meet index the target meet is the highest index with
\* a meet-directory entry, and the run fails (exit code 1, no labels, no
\* document) when fewer than two indices have an entry; the selected target
\* always has a lower index with an entry.
C2_DefaultSelection ==
    (DefaultRun /\ MeetChosen) =>
        IF Cardinality(DirectoryIndices) < 2
        THEN FailedWithoutOutput /\ r_error = "no meet data"
        ELSE /\ r_meet /= Nil
             /\ r_meet[1] \in DirectoryIndices
             /\ \A i \in DirectoryIndices : i <= r_meet[1]
             /\ \E i \in DirectoryIndices : i < r_meet[1]

\* the default run has selected its target among two meets with data
C2_Witness ==
    /\ DefaultRun
    /\ r_pc = "selected"
    /\ Cardinality(DirectoryIndices) >= 2
    /\ r_meet = Some(Len(r_meets) - 1)

\* C3: an explicit meet index past the last meet block, or of a block for
\* which no row has both a name and a result, ends the run in the "no such
\* meet" error with exit code 1, before any label is derived or any document
\* is written.
C3_NoSuchMeet ==
    (ExplicitRun /\ MeetChosen
       /\ (r_args.meet[1] >= FileBlockCount \/ ~RowHasMeet(r_args.meet[1]))) =>
        FailedWithoutOutput /\ r_error = "no such meet"

\* the run was asked for a meet block that exists in the file, but whose only
\* row has a meet name and no result
C3_Witness ==
    /\ ExplicitRun
    /\ r_pc = "exit"
    /\ r_error = "no such meet"
    /\ r_args.meet[1] < FileBlockCount
    /\ Len(r_lines) > 0
    /\ r_lines[1][8 + 6 * r_args.meet[1] + 1] /= <<>>

\* the target meet of the run has no meet with data before it
NoBaseline ==
    \/ Cardinality(DirectoryIndices) < 2
    \/ /\ r_args.meet /= Nil
       /\ ~\E i \in DirectoryIndices : i < r_args.meet[1]

\* C4: every run that is not a --list run, on a valid file in which fewer
\* than two meets have data or in which the requested meet has no prior meet
\* with data, exits with code 1 and writes no document, whether the meet was
\* chosen by default or given with --meet.
C4_NoBaselineFails ==
    (~r_args.show_list /\ MeetChosen /\ r_pc = "exit" /\ NoBaseline) =>
        (r_exit = Some(1) /\ ~r_written)

----------------------------------------------------------------------------
(* Claims about gen_formatted_report (SpecLayout) *)

\* C5: an event block is never split: the column/page break is decided once
\* per block, before its header is drawn, so while the rows of a block are
\* drawn the cursor is in the column and on the page of the block's header.
C5_BlockNotSplit ==
    f_pc = "swimmer" =>
        /\ f_c = f_block.c
        /\ f_x = f_block.x
        /\ f_page = f_block.page
        /\ f_y = f_block.y + EventHeight + (f_n - f_left) * SwimmerHeight

\* all the rows of a block taller than a column are drawn, below the bottom
\* margin, on the page the block was moved to
C5_Witness ==
    /\ f_pc = "swimmer"
    /\ f_left = 0
    /\ f_n = MaxSwimmers
    /\ f_break = "page"
    /\ f_y > BottomEdge

----------------------------------------------------------------------------
(* Claims about the best-times outline (SpecBest) *)

\* the rows of the file (by position) of an age group and event label
InputRows(ag, e) ==
    { i \in 1..Len(b_lines) : b_lines[i][1] = <<ag>> /\ b_lines[i][5] = <<e>> }

\* the event labels the file has for an age group
InputEvents(ag) ==
    { b_lines[i][5][1] : i \in { n \in 1..Len(b_lines) : b_lines[n][1] = <<ag>> } }

\* the event entries of the k-th age-group entry of the outline
OutlineEvents(k) == b_report[k][2]

C7_EveryPairHasHeader ==
    b_pc = "report" =>
        \A k \in 1..Len(b_report) :
            \A e \in InputEvents(b_report[k][1]) :
                \E j \in 1..Len(OutlineEvents(k)) :
                    /\ OutlineEvents(k)[j][1] = e
                    /\ Len(OutlineEvents(k)[j][2])
                         = Cardinality(InputRows(b_report[k][1], e))

\* the rows out of an event entry are the rows of the file for (ag, e), each
\* once, in non-decreasing time order, rows of equal time in file order
StableSortOfInput(out, ag, e) ==
    /\ Len(out) = Cardinality(InputRows(ag, e))
    /\ \E p \in [1..Len(out) -> InputRows(ag, e)] :
         /\ \A m, n \in 1..Len(out) : m < n =>
              \/ b_lines[p[m]][8][1] < b_lines[p[n]][8][1]
              \/ /\ b_lines[p[m]][8][1] = b_lines[p[n]][8][1]
                 /\ p[m] < p[n]
         /\ \A m \in 1..Len(out) :
              /\ out[m][1] = << b_lines[p[m]][2][1], b_lines[p[m]][3][1],
                                b_lines[p[m]][4][1] >>
              /\ 100 * out[m][2].sec + out[m][2].cs = b_lines[p[m]][8][1]
              /\ out[m][2].cs \in 0..99
              /\ out[m][3] = b_lines[p[m]][9]

\* C8: within every event of the outline the result rows are a permutation
\* of the input rows of that (age group, event) pair, in non-decreasing time
\* order, rows of equal time in their input order.
C8_StableTimeOrder ==
    b_pc = "report" =>
        \A k \in 1..Len(b_report) :
            \A j \in 1..Len(OutlineEvents(k)) :
                StableSortOfInput(OutlineEvents(k)[j][2], b_report[k][1],
                                  OutlineEvents(k)[j][1])

\* an event entry holds two results of equal time, in the order of the file
C8_Witness ==
    /\ b_pc = "report"
    /\ \E k \in 1..Len(b_report) :
         \E j \in 1..Len(OutlineEvents(k)) :
            LET out == OutlineEvents(k)[j][2]
            IN  /\ Len(out) >= 2
                /\ out[1][2] = out[2][2]
                /\ out[1][1][2] < out[2][1][2]

----------------------------------------------------------------------------
(* Claims about the report-card schema validators (SpecSchema) *)

\* the header is the 8 lead columns, n >= 1 blocks of the 6 meet columns
\* prefixed "Meet{i}-" for i = 1..n in order, and the 5 tail columns
WellFormedHeader(h) ==
    \E n \in 1..Len(h) :
        /\ Len(h) = 8 + 6 * n + 5
        /\ \A k \in 1..8 : h[k] = LeadColumns[k]
        /\ \A i \in 1..n, m \in 1..6 :
             h[8 + 6 * (i - 1) + m] = [meet |-> i, name |-> MeetColumns[m].name]
        /\ \A k \in 1..5 : h[8 + 6 * n + k] = TailColumns[k]

\* C9: the validator accepts a header if and only if it is the 8 lead
\* columns, N >= 1 meet blocks "Meet{i}-" in order and the 5 tail columns; it
\* rejects every header whose meet-column count (total - 13) is less than 6
\* or not a multiple of 6; read_data of the generator and
\* validate_black_ribbon_file of the orchestrator accept the same headers.
C9_SchemaValidators ==
    (s_read_data /= "pending" /\ s_validate /= "pending") =>
        /\ (s_read_data = "accept") <=> WellFormedHeader(s_header)
        /\ (s_validate = "accept") <=> WellFormedHeader(s_header)
        /\ (Len(s_header) - 13 < 6 \/ (Len(s_header) - 13) % 6 /= 0) =>
             (s_read_data = "reject" /\ s_validate = "reject")

\* both validators have accepted a header of two meet blocks, read with a row
C9_Witness ==
    /\ s_read_data = "accept"
    /\ s_validate = "accept"
    /\ Len(s_header) = 25
    /\ s_lines /= <<>>

----------------------------------------------------------------------------
(* Claims about the orchestrator (SpecOrch) *)

\* the meet indices of a report-card file for which some row has a time
DiscoveredMeets(file) ==
    { m \in 0..(((Len(file.header) - 13) \div 6) - 1) :
        \E i \in 1..Len(file.lines) : file.lines[i][8 + 6 * m + 3] /= <<>> }

CallsOf(prog, meet) ==
    { i \in 1..Len(o_calls) : o_calls[i].prog = prog /\ o_calls[i].meet = meet }

\* C10: with a best-times file and a report-card file selected, the script
\* ends having run best-times generation exactly once and ribbon generation
\* exactly once for each discovered meet index other than 0, with that index
\* as --meet, and nothing else; the exit codes of the children change nothing.
C10_Invocations ==
    (o_pc = "exit" /\ o_best /= Nil /\ o_card /= Nil) =>
        LET wanted == DiscoveredMeets(o_card[1]) \ {0}
        IN  /\ Cardinality(CallsOf("gen_best_times", Nil)) = 1
            /\ \A m \in wanted :
                 Cardinality(CallsOf("gen_black_ribbons", Some(m))) = 1
            /\ Len(o_calls) = 1 + Cardinality(wanted)

\* the script has ended after a best-times child that failed and, after it, a
\* ribbon child for meet 1 that failed too; meet 0 was discovered and skipped
C10_Witness ==
    /\ o_pc = "exit"
    /\ o_exit = Some(0)
    /\ Len(o_calls) = 2
    /\ o_calls[1].code = 1
    /\ o_calls[2].meet = Some(1)
    /\ o_calls[2].code = 1
    /\ 0 \in DiscoveredMeets(o_card[1])

----------------------------------------------------------------------------
(* Claims about gen_formatted_labels (SpecGrid) *)

\* C11: the k-th label drawn (k from 0) is on page k div 30, in column
\* (k div 10) mod 3 and row k mod 10; no two labels share a (page, column,
\* row) cell; the counters r and c stay within 0..9 and 0..2.
C11_GridPlacement ==
    /\ \A i \in 1..Len(g_cells) :
         g_cells[i] = [page |-> (i - 1) \div 30,
                       c    |-> ((i - 1) \div 10) % 3,
                       r    |-> (i - 1) % 10]
    /\ \A i, j \in 1..Len(g_cells) : g_cells[i] = g_cells[j] => i = j
    /\ g_r \in 0..9
    /\ g_c \in 0..2

\* all labels of a list that fills two pages and starts a third are drawn
C11_Witness ==
    /\ g_pc = "done"
    /\ Len(g_cells) = 61
    /\ g_cells[61] = [page |-> 2, c |-> 0, r |-> 0]
    /\ g_cells[31] = [page |-> 1, c |-> 0, r |-> 0]

----------------------------------------------------------------------------
(* Claims about the breaks of gen_formatted_report (SpecLayout) *)

\* the break test of the step is met: the block about to be placed does not
\* fit below the cursor
BreakDue ==
    f_y + (IF f_pc = "event" THEN EventRequired(f_n')
           ELSE AgeGroupRequired(f_first')) > BottomEdge

\* C12: a page is added only by a break taken in column 2, and after every
\* break the column is in 0..2 and the header of the block is at the top
\* margin; a page added for an event block carries the "(cont)" header of the
\* age group in column 0 and the block starts below it, at the top margin
\* plus the age-group header height; a page added at the start of an age
\* group carries no such header.
C12_Breaks ==
    /\ [](f_c \in 0..2)
    /\ [][ LET paged == f_page' /= f_page
               moved == f_c' /= f_c
           IN  /\ paged => /\ BreakDue
                           /\ f_c = 2 /\ f_c' = 0 /\ f_x' = LeftEdge
                           /\ f_page' = f_page + 1
               /\ moved => /\ BreakDue
                           /\ f_c' \in 0..2
               /\ (moved /\ ~paged) =>
                    /\ f_c' = f_c + 1
                    /\ f_cont' = f_cont
                    /\ IF f_pc = "event"
                       THEN f_block'.y = TopEdge
                       ELSE f_y' - AgeGroupHeight = TopEdge
               /\ (paged /\ f_pc = "event") =>
                    /\ f_cont' = Some(f_ag + 1)
                    /\ f_block'.c = 0
                    /\ f_block'.y = TopEdge + AgeGroupHeight
               /\ (paged /\ f_pc = "age_group") =>
                    /\ f_cont' = Nil
                    /\ f_y' - AgeGroupHeight = TopEdge ]_vars

\* the second event of the second age group was moved to a new page, below
\* the "(cont)" header of its age group
C12_Witness ==
    /\ f_pc = "swimmer"
    /\ f_break = "page"
    /\ f_ag = 1 /\ f_ev = 1
    /\ f_cont = Some(2)
    /\ f_block = [c |-> 0, x |-> LeftEdge, y |-> TopEdge + AgeGroupHeight,
                  page |-> f_page]
    /\ f_left = f_n

\* C13: an event block whose required height (event header, rows and event
\* pad) is not more than the height of a column is placed so that it ends
\* at or above the bottom margin.
C13_FittingBlockFits ==
    f_pc = "swimmer" =>
        (EventRequired(f_n) <= BottomEdge - TopEdge =>
            f_block.y + EventRequired(f_n) <= BottomEdge)

----------------------------------------------------------------------------
(* Claims about the two meet directories (SpecOrch) *)

\* the meet directory read_data builds from a report-card file
GeneratorMeets(file) ==
    LET h == read_data_header(file.header)
    IN  read_data_meets([i \in 1..h[1] |-> Nil], file.lines, h[1])

\* C14: on the report-card file the orchestrator selected, every meet index
\* that validate_black_ribbon_file recorded and the orchestrator passes as
\* --meet (every index but 0) has a directory entry in read_data of the
\* generator, so that validate_selected_meet accepts it.
C14_DirectoriesAgree ==
    o_card /= Nil =>
        \A k \in 1..Len(o_meets[1]) :
            o_meets[1][k][1] /= 0 =>
                validate_selected_meet(GeneratorMeets(o_card[1]),
                                       o_meets[1][k][1])

====
